---- MODULE Spec2Model ----
(***************************************************************************)
(* Model of dlo_hic/tools/main_process/noise_reduce.py: the fragment       *)
(* locator find_frag, the classifier bedpe_type, and the multiprocessing   *)
(* pipeline of _main (distributor, task queue, workers, counter merge,     *)
(* join, file merge and report); of remove_redundancy in                   *)
(* dlo_hic/tools/main_process/remove_redundancy.py; and of                 *)
(* infer_adapter_seq in dlo_hic/utils/infer_adapter.py.                    *)
(***************************************************************************)
EXTENDS Integers, Sequences, FiniteSets, TLC

VARIABLES
    ff,             \* one call of find_frag: its arguments and its outcome
    bt,             \* one call of bedpe_type: its arguments and its outcome
    threshold_span, \* _main's --threshold-span
    processes,      \* _main's --processes
    bedpe,          \* the records of the input file, in file order
    fpos,           \* how many records of the file have been read
    task_queue,     \* mp.Queue: chunks and termination signals, first in first out
    main_pc,        \* where _main is
    nstarted,       \* workers started so far by _main's start loop
    nput,           \* termination signals put so far
    njoined,        \* workers joined so far by _main's join loop
    w_pc,           \* where each worker is
    w_chunk,        \* the rest of the chunk a worker is iterating over
    l_counts,       \* each worker's local counts (normal, sel, re)
    sinks,          \* each worker's three temporary files: lines handed to write()
    skipped,        \* per worker: records skipped after a KeyError (log.warning)
    w_merge,        \* per worker: <<key being merged, value read from counts or -1>>
    lock,           \* mp.Lock: 0 when free, else the worker holding it
    counts,         \* the shared manager dict
    outputs,        \* the three merged output files
    report,         \* what log_counts wrote to the log file
    rr,             \* one run of remove_redundancy: its files, base and position
    ia              \* one call of infer_adapter_seq and the retries it makes

vars == <<ff, bt, threshold_span, processes, bedpe, fpos, task_queue, main_pc,
          nstarted, nput, njoined, w_pc, w_chunk, l_counts, sinks, skipped,
          w_merge, lock, counts, outputs, report, rr, ia>>

pipeVars == <<threshold_span, processes, bedpe, fpos, task_queue, main_pc,
              nstarted, nput, njoined, w_pc, w_chunk, l_counts, sinks, skipped,
              w_merge, lock, counts, outputs, report>>

-----------------------------------------------------------------------------
(* Bounds of the model. *)

MaxPos == 8          \* find_frag inputs: positions are 0..MaxPos
MaxSites == 3        \* find_frag inputs: at most this many restriction sites
MaxRestSiteLen == 1  \* find_frag inputs: rest_site_len is 0..MaxRestSiteLen
MaxStart == 11       \* bedpe_type inputs: interval starts are 0..MaxStart
MaxRecords == 3      \* pipeline: the input file holds at most this many records
MaxWorkers == 2      \* pipeline: processes is 1..MaxWorkers
ChunkSize == 2       \* pipeline: chunk_size of read_chunk (CHUNK_SIZE scaled down)

-----------------------------------------------------------------------------
(* Python values. *)

None == <<>>

Return(frag) == [kind |-> "return", exc |-> "", frag |-> frag]
Raise(e) == [kind |-> "raise", exc |-> e, frag |-> None]

\* arr[k] of a numpy array / Python list: 0-based, negative k counts from the end.
InRange(arr, k) == -Len(arr) <= k /\ k < Len(arr)
At(arr, k) == IF k < 0 THEN arr[Len(arr) + k + 1] ELSE arr[k + 1]

\* numpy.ndarray.searchsorted(x, side='right') on an ascending array:
\* the number of elements <= x.
searchsorted_right(sites, x) ==
    Cardinality({i \in 1..Len(sites) : sites[i] <= x})

-----------------------------------------------------------------------------
(* find_frag *)

\* same_fragment with the sides of the two outer cases exchanged.
same_fragment_sides_swapped(sites, frag_idx, mid) ==
    IF ~InRange(sites, frag_idx - 1) \/ ~InRange(sites, frag_idx)
    THEN Raise("IndexError")
    ELSE LET left_span == mid - At(sites, frag_idx - 1)
             right_span == At(sites, frag_idx) - mid
             pos == IF frag_idx = 0 THEN "s"
                    ELSE IF frag_idx = Len(sites) THEN "e"
                    ELSE IF left_span < right_span THEN "s" ELSE "e"
         IN  Return(<<frag_idx, pos>>)

\* same_fragment giving a tie of the two spans to the start side.
same_fragment_tie_start(sites, frag_idx, mid) ==
    IF ~InRange(sites, frag_idx - 1) \/ ~InRange(sites, frag_idx)
    THEN Raise("IndexError")
    ELSE LET left_span == mid - At(sites, frag_idx - 1)
             right_span == At(sites, frag_idx) - mid
             pos == IF frag_idx = 0 THEN "e"
                    ELSE IF frag_idx = Len(sites) THEN "s"
                    ELSE IF left_span <= right_span THEN "s" ELSE "e"
         IN  Return(<<frag_idx, pos>>)

\* lines 75-90: both search points fall between the same two sites.
\* sites[frag_idx - 1] and sites[frag_idx] are read before frag_idx is tested.
same_fragment(sites, frag_idx, mid) ==
    IF ~InRange(sites, frag_idx - 1) \/ ~InRange(sites, frag_idx)
    THEN Raise("IndexError")
    ELSE LET frag_start == At(sites, frag_idx - 1)
             frag_end == At(sites, frag_idx)
             left_span == mid - frag_start
             right_span == frag_end - mid
             pos == IF frag_idx = 0 THEN "e"
                    ELSE IF frag_idx = Len(sites) THEN "s"
                    ELSE IF left_span < right_span THEN "s" ELSE "e"
         IN  Return(<<frag_idx, pos>>)

\* lines 92-114: the search points fall in different gaps.
\* sites[frag_idx_s - 1], sites[frag_idx_s] and sites[frag_idx_e] are read first.
two_fragments(sites, frag_idx_s, frag_idx_e, start, end_search_point) ==
    IF ~InRange(sites, frag_idx_s - 1) \/ ~InRange(sites, frag_idx_s)
       \/ ~InRange(sites, frag_idx_e)
    THEN Raise("IndexError")
    ELSE LET frag_start == At(sites, frag_idx_s - 1)
             frag_end == At(sites, frag_idx_e)
             left_span == start - frag_start
             right_span == frag_end - end_search_point - 1
         IN  IF frag_idx_s = 0 THEN Return(<<frag_idx_s, "e">>)
             ELSE IF frag_idx_e = Len(sites) THEN Return(<<frag_idx_e, "s">>)
             ELSE IF left_span < right_span THEN Return(<<frag_idx_s, "s">>)
             ELSE Return(<<frag_idx_e, "e">>)

\* find_frag without its assertion.
find_frag_unchecked(rest_sites_chr, start, end, rest_site_len) ==
    LET end_search_point == end - rest_site_len - 1
        frag_idx_s == searchsorted_right(rest_sites_chr, start)
        frag_idx_e == searchsorted_right(rest_sites_chr, end_search_point)
    IN  IF frag_idx_s = frag_idx_e
        THEN same_fragment(rest_sites_chr, frag_idx_s, (start + end) \div 2)
        ELSE two_fragments(rest_sites_chr, frag_idx_s, frag_idx_e, start,
                           end_search_point)

\* find_frag asserting start <= end_search_point.
find_frag_assert_le(rest_sites_chr, start, end, rest_site_len) ==
    LET end_search_point == end - rest_site_len - 1
        frag_idx_s == searchsorted_right(rest_sites_chr, start)
        frag_idx_e == searchsorted_right(rest_sites_chr, end_search_point)
    IN  IF ~(start <= end_search_point) THEN Raise("AssertionError")
        ELSE IF frag_idx_s = frag_idx_e
        THEN same_fragment(rest_sites_chr, frag_idx_s, (start + end) \div 2)
        ELSE two_fragments(rest_sites_chr, frag_idx_s, frag_idx_e, start,
                           end_search_point)

find_frag(rest_sites_chr, start, end, rest_site_len) ==
    LET end_search_point == end - rest_site_len - 1
        sites == rest_sites_chr
        mid == (start + end) \div 2
        frag_idx_s == searchsorted_right(sites, start)
        frag_idx_e == searchsorted_right(sites, end_search_point)
    IN  IF ~(start < end_search_point) THEN Raise("AssertionError")
        ELSE IF frag_idx_s = frag_idx_e
        THEN same_fragment(sites, frag_idx_s, mid)
        ELSE two_fragments(sites, frag_idx_s, frag_idx_e, start, end_search_point)

-----------------------------------------------------------------------------
(* The restriction-site index handed to bedpe_type and to the workers: what *)
(* load_rest_sites returned. chrU is a chromosome of the records that the   *)
(* index does not hold.                                                     *)

rest_sites == ("chrA" :> <<2, 7, 13>>) @@ ("chrB" :> <<5>>)
rest_site_len == 1

Chroms == {"chrA", "chrB", "chrU"}

abs(x) == IF x < 0 THEN -x ELSE x

-----------------------------------------------------------------------------
(* bedpe_type. An outcome is a return of (type, frag1, frag2) or a raise;   *)
(* calls counts the find_frag calls made on the way.                        *)

ReturnType(type, frag1, frag2, calls) ==
    [kind |-> "return", exc |-> "", type |-> type,
     frag1 |-> frag1, frag2 |-> frag2, calls |-> calls]
RaiseType(e, calls) ==
    [kind |-> "raise", exc |-> e, type |-> "",
     frag1 |-> None, frag2 |-> None, calls |-> calls]

\* inter_chromosome mapping the second end against the first end's sites.
inter_chromosome_first_sites(sites_of, bedpe_items, thr, rsl) ==
    LET chr1 == bedpe_items[1]  chr2 == bedpe_items[4] IN
    IF thr # -1 THEN ReturnType("normal", None, None, 0)
    ELSE IF chr1 \notin DOMAIN sites_of THEN RaiseType("KeyError", 0)
    ELSE LET frag1 == find_frag(sites_of[chr1], bedpe_items[2], bedpe_items[3], rsl) IN
         IF frag1.kind = "raise" THEN RaiseType(frag1.exc, 1)
         ELSE IF chr2 \notin DOMAIN sites_of THEN RaiseType("KeyError", 1)
         ELSE LET frag2 == find_frag(sites_of[chr1], bedpe_items[5],
                                     bedpe_items[6], rsl) IN
              IF frag2.kind = "raise" THEN RaiseType(frag2.exc, 2)
              ELSE ReturnType("normal", frag1.frag, frag2.frag, 2)

\* lines 158-164: chr1 != chr2
inter_chromosome(sites_of, bedpe_items, thr, rsl) ==
    LET chr1 == bedpe_items[1]  start1 == bedpe_items[2]  end1 == bedpe_items[3]
        chr2 == bedpe_items[4]  start2 == bedpe_items[5]  end2 == bedpe_items[6]
    IN  IF thr # -1 THEN ReturnType("normal", None, None, 0)
        ELSE IF chr1 \notin DOMAIN sites_of THEN RaiseType("KeyError", 0)
        ELSE LET frag1 == find_frag(sites_of[chr1], start1, end1, rsl) IN
             IF frag1.kind = "raise" THEN RaiseType(frag1.exc, 1)
             ELSE IF chr2 \notin DOMAIN sites_of THEN RaiseType("KeyError", 1)
             ELSE LET frag2 == find_frag(sites_of[chr2], start2, end2, rsl) IN
                  IF frag2.kind = "raise" THEN RaiseType(frag2.exc, 2)
                  ELSE ReturnType("normal", frag1.frag, frag2.frag, 2)

\* judge taking adjacency in either order.
judge_either_order(frag1, frag2) ==
    IF frag1[1] = frag2[1] THEN "self-ligation"
    ELSE IF abs(frag2[1] - frag1[1]) = 1 /\ frag2[2] = "s" /\ frag1[2] = "e"
         THEN "re-ligation"
    ELSE "normal"

\* judge taking the adjacency in both directions, the sides exchanged with
\* the ends.
judge_both_directions(frag1, frag2) ==
    IF frag1[1] = frag2[1] THEN "self-ligation"
    ELSE IF \/ (frag2[1] - frag1[1] = 1) /\ frag2[2] = "s" /\ frag1[2] = "e"
            \/ (frag1[1] - frag2[1] = 1) /\ frag1[2] = "s" /\ frag2[2] = "e"
         THEN "re-ligation"
    ELSE "normal"

\* lines 178-183: the verdict on two mapped ends
judge(frag1, frag2) ==
    IF frag1[1] = frag2[1] THEN "self-ligation"
    ELSE IF (frag2[1] - frag1[1] = 1) /\ frag2[2] = "s" /\ frag1[2] = "e"
         THEN "re-ligation"
    ELSE "normal"

\* intra_chromosome with the span comparison inverted.
intra_chromosome_inverted(sites_of, bedpe_items, thr, rsl) ==
    LET chr1 == bedpe_items[1]
        span == abs(bedpe_items[2] - bedpe_items[5])
    IN  IF span < thr /\ thr # -1 THEN ReturnType("normal", None, None, 0)
        ELSE IF chr1 \notin DOMAIN sites_of THEN RaiseType("KeyError", 0)
        ELSE LET frag1 == find_frag(sites_of[chr1], bedpe_items[2], bedpe_items[3], rsl)
             IN  IF frag1.kind = "raise" THEN RaiseType(frag1.exc, 1)
                 ELSE LET frag2 == find_frag(sites_of[chr1], bedpe_items[5],
                                             bedpe_items[6], rsl) IN
                      IF frag2.kind = "raise" THEN RaiseType(frag2.exc, 2)
                      ELSE ReturnType(judge(frag1.frag, frag2.frag),
                                      frag1.frag, frag2.frag, 2)

\* lines 166-183: chr1 == chr2
intra_chromosome(sites_of, bedpe_items, thr, rsl) ==
    LET chr1 == bedpe_items[1]  start1 == bedpe_items[2]  end1 == bedpe_items[3]
        start2 == bedpe_items[5]  end2 == bedpe_items[6]
        span == abs(start1 - start2)
    IN  IF span > thr /\ thr # -1 THEN ReturnType("normal", None, None, 0)
        ELSE IF chr1 \notin DOMAIN sites_of THEN RaiseType("KeyError", 0)
        ELSE LET sites == sites_of[chr1]
                 frag1 == find_frag(sites, start1, end1, rsl)
             IN  IF frag1.kind = "raise" THEN RaiseType(frag1.exc, 1)
                 ELSE LET frag2 == find_frag(sites, start2, end2, rsl) IN
                      IF frag2.kind = "raise" THEN RaiseType(frag2.exc, 2)
                      ELSE ReturnType(judge(frag1.frag, frag2.frag),
                                      frag1.frag, frag2.frag, 2)

bedpe_type(sites_of, bedpe_items, thr, rsl) ==
    IF bedpe_items[1] # bedpe_items[4]
    THEN inter_chromosome(sites_of, bedpe_items, thr, rsl)
    ELSE intra_chromosome(sites_of, bedpe_items, thr, rsl)

-----------------------------------------------------------------------------
(* The pipeline before _main is entered: the state the two specifications   *)
(* of the pure functions leave untouched.                                   *)

Workers == 1..MaxWorkers
Types == <<"normal", "self-ligation", "re-ligation">>
TypeSet == {Types[i] : i \in 1..3}
\* The dispatch with the re-ligation branch writing to the self-ligation file.
TypeIndex_re_as_sel(type) ==
    IF type = "normal" THEN 1 ELSE 2

\* worker, lines 224-232: the file and the local counter of a type.
TypeIndex(type) == CHOOSE i \in 1..3 : Types[i] = type

PipelineIdle ==
    /\ threshold_span = -1
    /\ processes = 1
    /\ bedpe = <<>>
    /\ fpos = 0
    /\ task_queue = <<>>
    /\ main_pc = "idle"
    /\ nstarted = 0
    /\ nput = 0
    /\ njoined = 0
    /\ w_pc = [w \in Workers |-> "new"]
    /\ w_chunk = [w \in Workers |-> <<>>]
    /\ l_counts = [w \in Workers |-> <<0, 0, 0>>]
    /\ sinks = [w \in Workers |-> <<<<>>, <<>>, <<>>>>]
    /\ skipped = [w \in Workers |-> 0]
    /\ w_merge = [w \in Workers |-> <<1, -1>>]
    /\ lock = 0
    /\ counts = [k \in TypeSet |-> 0]
    /\ outputs = <<<<>>, <<>>, <<>>>>
    /\ report = None

-----------------------------------------------------------------------------
(* SpecFindFrag: find_frag applied to every input of a bounded set, and to  *)
(* the intervals of the documented scenario (sites 100, 200, 300).          *)

Positions == 0..MaxPos

AscSeqsOfLen(n) ==
    {s \in [1..n -> Positions] : \A i \in 1..(n - 1) : s[i] < s[i + 1]}
AscSeqs == UNION {AscSeqsOfLen(n) : n \in 0..MaxSites}

ScenarioCalls ==
    {[sites |-> <<100, 200, 300>>, start |-> 150, end |-> e, rest_site_len |-> 10]
        : e \in {160, 162}}

FindFragCalls ==
    {[sites |-> s, start |-> a, end |-> b, rest_site_len |-> r]
        : s \in AscSeqs, a \in Positions, b \in Positions,
          r \in 0..MaxRestSiteLen}
    \cup ScenarioCalls

Pending == [kind |-> "pending", exc |-> "", frag |-> None]
PendingType == [kind |-> "pending", exc |-> "", type |-> "",
                frag1 |-> None, frag2 |-> None, calls |-> 0]

NoFindFragCall ==
    [args |-> [sites |-> <<>>, start |-> 0, end |-> 0, rest_site_len |-> 0],
     res |-> Pending]
NoBedpeTypeCall ==
    [items |-> <<"", 0, 0, "", 0, 0>>, threshold_span |-> 0, res |-> PendingType]

\* remove_redundancy and infer_adapter_seq not called.
NoRemoveRedundancy ==
    [file |-> <<>>, distance |-> 0, pos |-> 0, base |-> None, out |-> <<>>,
     pc |-> "idle"]
NoInferAdapter ==
    [original |-> None, args |-> None, start_pos |-> 0, batch |-> 0,
     candidates |-> <<>>, depth |-> 0, pc |-> "idle", res |-> None]

InitFindFrag ==
    /\ ff \in {[args |-> c, res |-> Pending] : c \in FindFragCalls}
    /\ bt = NoBedpeTypeCall
    /\ rr = NoRemoveRedundancy
    /\ ia = NoInferAdapter
    /\ PipelineIdle

FindFragCall ==
    /\ main_pc = "idle"
    /\ ff.res.kind = "pending"
    /\ ff' = [ff EXCEPT !.res = find_frag(ff.args.sites, ff.args.start,
                                          ff.args.end, ff.args.rest_site_len)]
    /\ UNCHANGED <<bt, rr, ia, pipeVars>>

SpecFindFrag == InitFindFrag /\ [][FindFragCall]_vars

-----------------------------------------------------------------------------
(* SpecBedpeType: bedpe_type applied to every record of a bounded set under *)
(* every threshold of a small set, against the index rest_sites.            *)

ReadLens == {2, 4}
Thresholds == {-2, -1, 0, 3}
Starts == 0..MaxStart

BedpeItems ==
    {<<c1, s1, s1 + n1, c2, s2, s2 + n2>>
        : c1 \in Chroms, c2 \in Chroms, s1 \in Starts, s2 \in Starts,
          n1 \in ReadLens, n2 \in ReadLens}

InitBedpeType ==
    /\ bt \in {[items |-> it, threshold_span |-> t, res |-> PendingType]
                  : it \in BedpeItems, t \in Thresholds}
    /\ ff = NoFindFragCall
    /\ rr = NoRemoveRedundancy
    /\ ia = NoInferAdapter
    /\ PipelineIdle

BedpeTypeCall ==
    /\ main_pc = "idle"
    /\ bt.res.kind = "pending"
    /\ bt' = [bt EXCEPT !.res = bedpe_type(rest_sites, bt.items,
                                           bt.threshold_span, rest_site_len)]
    /\ UNCHANGED <<ff, rr, ia, pipeVars>>

SpecBedpeType == InitBedpeType /\ [][BedpeTypeCall]_vars

-----------------------------------------------------------------------------
(* The pipeline of _main.                                                   *)

\* The records an input file is made of: one of each way a record can go
\* against rest_sites.
PipeRecords ==
    { <<"chrA", 0, 4, "chrA", 8, 12>>,    \* far apart; mapped: fragments 0 and 2
      <<"chrA", 2, 6, "chrA", 3, 7>>,     \* both ends in fragment 1
      <<"chrA", 0, 4, "chrA", 2, 6>>,     \* (0, e) and (1, s)
      <<"chrU", 0, 4, "chrU", 1, 5>>,     \* chromosome absent, ends close
      <<"chrU", 0, 4, "chrA", 0, 4>>,     \* chromosome absent, other end known
      <<"chrA", 11, 15, "chrA", 10, 14>>, \* reaches past the last site of chrA
      <<"chrA", 0, 2, "chrU", 0, 4>> }    \* first end shorter than rest_site_len + 2,
                                          \* second end on an absent chromosome

PipeThresholds == {-1, 3}

SeqsUpTo(S, n) == UNION {[1..k -> S] : k \in 0..n}

NoneItem == [none |-> TRUE, chunk |-> <<>>]
ChunkItem(c) == [none |-> FALSE, chunk |-> c]

Min(a, b) == IF a < b THEN a ELSE b

\* read_chunk returning what it has at the end of the file, were it nothing.
read_chunk_returns_empty(file, pos, chunk_size) ==
    LET n == Min(chunk_size, Len(file) - pos) IN
    [kind |-> "return", exc |-> "", chunk |-> SubSeq(file, pos + 1, pos + n)]

\* read_chunk on a file of which pos records have been read.
read_chunk(file, pos, chunk_size) ==
    LET n == Min(chunk_size, Len(file) - pos) IN
    IF chunk_size > 0 /\ n = 0
    THEN [kind |-> "raise", exc |-> "StopIteration", chunk |-> <<>>]
    ELSE [kind |-> "return", exc |-> "", chunk |-> SubSeq(file, pos + 1, pos + n)]

Init ==
    /\ ff = NoFindFragCall
    /\ bt = NoBedpeTypeCall
    /\ rr = NoRemoveRedundancy
    /\ ia = NoInferAdapter
    /\ threshold_span \in PipeThresholds
    /\ processes \in 1..MaxWorkers
    /\ bedpe \in SeqsUpTo(PipeRecords, MaxRecords)
    /\ fpos = 0
    /\ task_queue = <<>>
    /\ main_pc = "start"
    /\ nstarted = 0
    /\ nput = 0
    /\ njoined = 0
    /\ w_pc = [w \in Workers |-> "new"]
    /\ w_chunk = [w \in Workers |-> <<>>]
    /\ l_counts = [w \in Workers |-> <<0, 0, 0>>]
    /\ sinks = [w \in Workers |-> <<<<>>, <<>>, <<>>>>]
    /\ skipped = [w \in Workers |-> 0]
    /\ w_merge = [w \in Workers |-> <<1, -1>>]
    /\ lock = 0
    /\ counts = [k \in TypeSet |-> 0]
    /\ outputs = <<<<>>, <<>>, <<>>>>
    /\ report = None

\* _main, lines 350-351: w.start(); the worker opens its three files.
StartWorker ==
    /\ main_pc = "start"
    /\ nstarted < processes
    /\ nstarted' = nstarted + 1
    /\ w_pc' = [w_pc EXCEPT ![nstarted + 1] = "get"]
    /\ main_pc' = IF nstarted + 1 = processes THEN "read" ELSE "start"
    /\ UNCHANGED <<rr, ia, ff, bt, threshold_span, processes, bedpe, fpos, task_queue,
                   nput, njoined, w_chunk, l_counts, sinks, skipped, w_merge,
                   lock, counts, outputs, report>>

\* _main, lines 353-358: task_queue.put(read_chunk(f)) until StopIteration.
ReadChunk ==
    /\ main_pc = "read"
    /\ LET r == read_chunk(bedpe, fpos, ChunkSize) IN
       IF r.kind = "raise"
       THEN /\ main_pc' = "pills"
            /\ UNCHANGED <<task_queue, fpos>>
       ELSE /\ task_queue' = Append(task_queue, ChunkItem(r.chunk))
            /\ fpos' = fpos + Len(r.chunk)
            /\ UNCHANGED main_pc
    /\ UNCHANGED <<rr, ia, ff, bt, threshold_span, processes, bedpe, nstarted, nput,
                   njoined, w_pc, w_chunk, l_counts, sinks, skipped, w_merge,
                   lock, counts, outputs, report>>

\* _main, lines 360-361: one None per worker.
PutNone ==
    /\ main_pc = "pills"
    /\ nput < processes
    /\ task_queue' = Append(task_queue, NoneItem)
    /\ nput' = nput + 1
    /\ main_pc' = IF nput + 1 = processes THEN "join" ELSE "pills"
    /\ UNCHANGED <<rr, ia, ff, bt, threshold_span, processes, bedpe, fpos, nstarted,
                   njoined, w_pc, w_chunk, l_counts, sinks, skipped, w_merge,
                   lock, counts, outputs, report>>

\* worker, lines 197-199: task_queue.get() blocks until an item is there.
Get(w) ==
    /\ w_pc[w] = "get"
    /\ task_queue # <<>>
    /\ task_queue' = Tail(task_queue)
    /\ IF Head(task_queue).none
       THEN /\ w_pc' = [w_pc EXCEPT ![w] = "close"]
            /\ UNCHANGED w_chunk
       ELSE /\ w_chunk' = [w_chunk EXCEPT ![w] = Head(task_queue).chunk]
            /\ w_pc' = [w_pc EXCEPT ![w] =
                            IF Head(task_queue).chunk = <<>> THEN "get" ELSE "proc"]
    /\ UNCHANGED <<rr, ia, ff, bt, threshold_span, processes, bedpe, fpos, main_pc,
                   nstarted, nput, njoined, l_counts, sinks, skipped, w_merge,
                   lock, counts, outputs, report>>

\* The line the worker writes, lines 219-222: the items, and the fragment
\* annotation when frag1 is not None.
out_line(items, r) ==
    <<items, IF r.frag1 # None THEN <<r.frag1, r.frag2>> ELSE None>>

Prefixes(q) == {SubSeq(q, 1, n) : n \in 0..Len(q)}

\* record_outcome without the except clause.
record_outcome_no_except(r) ==
    IF r.kind = "raise" THEN "crash" ELSE "write"

\* worker, lines 213-217: what becomes of a record after bedpe_type.
record_outcome(r) ==
    IF r.kind = "raise" /\ r.exc = "KeyError" THEN "skip"
    ELSE IF r.kind = "raise" THEN "crash"
    ELSE "write"

\* worker, lines 212-232: one iteration of `for items in chunk`.
\* An exception other than KeyError ends the process: close() is never
\* called, so of each file any prefix of the lines written may be on disk.
Process(w) ==
    /\ w_pc[w] = "proc"
    /\ LET items == Head(w_chunk[w])
           r == bedpe_type(rest_sites, items, threshold_span, rest_site_len)
           rest == Tail(w_chunk[w])
           next_pc == IF rest = <<>> THEN "get" ELSE "proc"
       IN  IF record_outcome(r) = "skip"
           THEN /\ skipped' = [skipped EXCEPT ![w] = @ + 1]
                /\ w_chunk' = [w_chunk EXCEPT ![w] = rest]
                /\ w_pc' = [w_pc EXCEPT ![w] = next_pc]
                /\ UNCHANGED <<sinks, l_counts>>
           ELSE IF record_outcome(r) = "crash"
           THEN /\ w_pc' = [w_pc EXCEPT ![w] = "crashed"]
                /\ \E f \in Prefixes(sinks[w][1]) \X Prefixes(sinks[w][2])
                              \X Prefixes(sinks[w][3]) :
                       sinks' = [sinks EXCEPT ![w] = f]
                /\ UNCHANGED <<skipped, w_chunk, l_counts>>
           ELSE LET t == TypeIndex(r.type) IN
                /\ sinks' = [sinks EXCEPT ![w][t] = Append(@, out_line(items, r))]
                /\ l_counts' = [l_counts EXCEPT ![w][t] = @ + 1]
                /\ w_chunk' = [w_chunk EXCEPT ![w] = rest]
                /\ w_pc' = [w_pc EXCEPT ![w] = next_pc]
                /\ UNCHANGED skipped
    /\ UNCHANGED <<rr, ia, ff, bt, threshold_span, processes, bedpe, fpos, task_queue,
                   main_pc, nstarted, nput, njoined, w_merge, lock, counts,
                   outputs, report>>

\* worker, lines 200-203: the three close() calls.
Close(w) ==
    /\ w_pc[w] = "close"
    /\ w_pc' = [w_pc EXCEPT ![w] = "acquire"]
    /\ UNCHANGED <<rr, ia, ff, bt, threshold_span, processes, bedpe, fpos, task_queue,
                   main_pc, nstarted, nput, njoined, w_chunk, l_counts, sinks,
                   skipped, w_merge, lock, counts, outputs, report>>

\* Acquire that does not wait for the lock to be free.
Acquire_no_wait(w) ==
    /\ w_pc[w] = "acquire"
    /\ lock' = w
    /\ w_pc' = [w_pc EXCEPT ![w] = "merge"]
    /\ UNCHANGED <<rr, ia, ff, bt, threshold_span, processes, bedpe, fpos, task_queue,
                   main_pc, nstarted, nput, njoined, w_chunk, l_counts, sinks,
                   skipped, w_merge, counts, outputs, report>>

\* worker, line 204
Acquire(w) ==
    /\ w_pc[w] = "acquire"
    /\ lock = 0
    /\ lock' = w
    /\ w_pc' = [w_pc EXCEPT ![w] = "merge"]
    /\ UNCHANGED <<rr, ia, ff, bt, threshold_span, processes, bedpe, fpos, task_queue,
                   main_pc, nstarted, nput, njoined, w_chunk, l_counts, sinks,
                   skipped, w_merge, counts, outputs, report>>

\* worker, lines 205-207: counts[k] += l_counts[i] is a read of the manager
\* dict followed by a write to it.
MergeRead(w) ==
    /\ w_pc[w] = "merge"
    /\ w_merge[w][2] = -1
    /\ w_merge' = [w_merge EXCEPT ![w] = <<@[1], counts[Types[@[1]]]>>]
    /\ UNCHANGED <<rr, ia, ff, bt, threshold_span, processes, bedpe, fpos, task_queue,
                   main_pc, nstarted, nput, njoined, w_pc, w_chunk, l_counts,
                   sinks, skipped, lock, counts, outputs, report>>

MergeWrite(w) ==
    /\ w_pc[w] = "merge"
    /\ w_merge[w][2] # -1
    /\ LET k == w_merge[w][1] IN
       /\ counts' = [counts EXCEPT ![Types[k]] = w_merge[w][2] + l_counts[w][k]]
       /\ w_merge' = [w_merge EXCEPT ![w] = <<IF k = 3 THEN 3 ELSE k + 1, -1>>]
       /\ w_pc' = [w_pc EXCEPT ![w] = IF k = 3 THEN "release" ELSE "merge"]
    /\ UNCHANGED <<rr, ia, ff, bt, threshold_span, processes, bedpe, fpos, task_queue,
                   main_pc, nstarted, nput, njoined, w_chunk, l_counts, sinks,
                   skipped, lock, outputs, report>>

\* worker, lines 208-210: release, and the process ends.
Release(w) ==
    /\ w_pc[w] = "release"
    /\ lock' = 0
    /\ w_pc' = [w_pc EXCEPT ![w] = "done"]
    /\ UNCHANGED <<rr, ia, ff, bt, threshold_span, processes, bedpe, fpos, task_queue,
                   main_pc, nstarted, nput, njoined, w_chunk, l_counts, sinks,
                   skipped, w_merge, counts, outputs, report>>

\* _main, lines 363-364: w.join() returns once the process has ended,
\* whatever its exit code.
Join ==
    /\ main_pc = "join"
    /\ njoined < processes
    /\ w_pc[njoined + 1] \in {"done", "crashed"}
    /\ njoined' = njoined + 1
    /\ main_pc' = IF njoined + 1 = processes THEN "merge" ELSE "join"
    /\ UNCHANGED <<rr, ia, ff, bt, threshold_span, processes, bedpe, fpos, task_queue,
                   nstarted, nput, w_pc, w_chunk, l_counts, sinks, skipped,
                   w_merge, lock, counts, outputs, report>>

\* merge_tmp_files (dlo_hic.utils.filetools): the files of workers 0..P-1
\* concatenated in that order.
RECURSIVE merge_tmp_files(_, _, _)
merge_tmp_files(files, t, n) ==
    IF n = 0 THEN <<>> ELSE merge_tmp_files(files, t, n - 1) \o files[n][t]

\* _main, lines 366-373
MergeFiles ==
    /\ main_pc = "merge"
    /\ outputs' = [t \in 1..3 |-> merge_tmp_files(sinks, t, processes)]
    /\ main_pc' = "report"
    /\ UNCHANGED <<rr, ia, ff, bt, threshold_span, processes, bedpe, fpos, task_queue,
                   nstarted, nput, njoined, w_pc, w_chunk, l_counts, sinks,
                   skipped, w_merge, lock, counts, report>>

\* log_counts: the four lines of the log file.
log_counts(c) ==
    <<c["normal"], c["self-ligation"], c["re-ligation"],
      c["normal"] + c["self-ligation"] + c["re-ligation"]>>

\* _main, lines 375-376
LogCounts ==
    /\ main_pc = "report"
    /\ report' = log_counts(counts)
    /\ main_pc' = "done"
    /\ UNCHANGED <<rr, ia, ff, bt, threshold_span, processes, bedpe, fpos, task_queue,
                   nstarted, nput, njoined, w_pc, w_chunk, l_counts, sinks,
                   skipped, w_merge, lock, counts, outputs>>

WorkerStep(w) ==
    \/ Get(w)
    \/ Process(w)
    \/ Close(w)
    \/ Acquire(w)
    \/ MergeRead(w)
    \/ MergeWrite(w)
    \/ Release(w)

MainStep ==
    \/ StartWorker
    \/ ReadChunk
    \/ PutNone
    \/ Join
    \/ MergeFiles
    \/ LogCounts

Next ==
    \/ MainStep
    \/ \E w \in Workers : WorkerStep(w)

Spec == Init /\ [][Next]_vars

-----------------------------------------------------------------------------
(* Properties of find_frag, under SpecFindFrag.                             *)

FFCalled == ff.res.kind # "pending"
FFSites == ff.args.sites
FFSearchEnd == ff.args.end - ff.args.rest_site_len - 1
FFPrecondition == ff.args.start < FFSearchEnd
Scenario(e) ==
    [sites |-> <<100, 200, 300>>, start |-> 150, end |-> e, rest_site_len |-> 10]

\* C6: for a non-empty ascending site array and an interval that meets the
\* precondition and starts at or after the last site, find_frag returns
\* (len(sites), "s") and does not raise.
C6_RightOfLastSite ==
    (FFCalled /\ FFSites # <<>> /\ FFPrecondition
        /\ ff.args.start >= FFSites[Len(FFSites)])
    => ff.res = Return(<<Len(FFSites), "s">>)

\* C7: for a non-empty ascending site array and an interval that meets the
\* precondition and whose end search point is left of the first site,
\* find_frag returns (0, "e").
C7_LeftOfFirstSite ==
    (FFCalled /\ FFSites # <<>> /\ FFPrecondition /\ FFSearchEnd < FFSites[1])
    => ff.res = Return(<<0, "e">>)

C7_Witness ==
    /\ FFCalled /\ Len(FFSites) >= 2 /\ FFPrecondition
    /\ FFSearchEnd < FFSites[1]
    /\ ff.res.kind = "return"

\* C8 as stated: sites [100, 200, 300], rest_site_len 10, interval (150, 160)
\* gives fragment 1, side End.
C8_ScenarioReturnsEnd ==
    (FFCalled /\ ff.args = Scenario(160)) => ff.res = Return(<<1, "e">>)

\* C8 amended: (150, 160) violates the precondition (150 < 149 is false) and
\* find_frag raises AssertionError; the shortest interval from 150 that meets
\* it, (150, 162), gives fragment 1, side End (mid 156, distances 56 and 44).
C8_ScenarioAsserts ==
    FFCalled =>
        /\ ff.args = Scenario(160) => ff.res = Raise("AssertionError")
        /\ ff.args = Scenario(162) => ff.res = Return(<<1, "e">>)

C8_Witness == FFCalled /\ ff.args = Scenario(160) /\ ~FFPrecondition

\* C12: a call whose interval violates the precondition
\* (start >= end - rest_site_len - 1) raises the AssertionError of line 69,
\* which precedes both searchsorted calls, and returns no fragment ref,
\* whatever the site array (empty arrays and out-of-range intervals included).
C12_PreconditionFailsFast ==
    (FFCalled /\ ~FFPrecondition) => ff.res = Raise("AssertionError")

C12_Witness ==
    /\ FFCalled /\ ff.args.start = FFSearchEnd
    /\ Len(FFSites) >= 2
    /\ FFSites[1] <= ff.args.start /\ ff.args.start < FFSites[2]
    /\ ff.res.kind = "raise"

\* The two indices the binary searches of lines 72-73 give for the call.
FFIdxS == searchsorted_right(FFSites, ff.args.start)
FFIdxE == searchsorted_right(FFSites, FFSearchEnd)

\* The spans of the rule for two fragments, for 0 < FFIdxS and
\* FFIdxE < len(sites): from the site before start to start, and from the
\* end search point to the site after it.
FFLeftSpan == ff.args.start - FFSites[FFIdxS]
FFRightSpan == FFSites[FFIdxE + 1] - FFSearchEnd - 1

\* C15: when the two searches give different indices, find_frag returns
\* (idx_s, "e") if idx_s = 0, else (idx_e, "s") if idx_e = len(sites), else
\* (idx_s, "s") if left_span < right_span and (idx_e, "e") otherwise; for
\* every ascending site array and every interval meeting the precondition,
\* those reaching past the last site included.
C15_TwoFragmentsRule ==
    (FFCalled /\ FFPrecondition /\ FFIdxS # FFIdxE) =>
        ff.res = Return(IF FFIdxS = 0 THEN <<FFIdxS, "e">>
                        ELSE IF FFIdxE = Len(FFSites) THEN <<FFIdxE, "s">>
                        ELSE IF FFLeftSpan < FFRightSpan THEN <<FFIdxS, "s">>
                        ELSE <<FFIdxE, "e">>)

\* The midpoint of the call's interval, line 71, and the two spans compared
\* when both search points fall in the same gap, lines 84-85 (sites[idx - 1]
\* with Python's indexing, -1 being the last site).
FFMid == (ff.args.start + ff.args.end) \div 2
FFSameGapLeft == FFMid - At(FFSites, FFIdxS - 1)
FFSameGapRight == At(FFSites, FFIdxS) - FFMid

\* C19: a tie of the two compared spans goes to the End side: with both
\* search points in the same gap and mid - sites[idx - 1] = sites[idx] - mid
\* find_frag returns (idx, "e"); with the search points in different gaps
\* and left_span = right_span it returns (idx_e, "e").
C19_TieGoesToEnd ==
    (FFCalled /\ FFPrecondition /\ FFIdxE < Len(FFSites)) =>
        /\ (FFIdxS = FFIdxE /\ FFSameGapLeft = FFSameGapRight)
              => ff.res = Return(<<FFIdxS, "e">>)
        /\ (FFIdxS # FFIdxE
              /\ ff.args.start - At(FFSites, FFIdxS - 1) = FFRightSpan)
              => ff.res = Return(<<FFIdxE, "e">>)

C19_Witness ==
    /\ FFCalled /\ FFPrecondition
    /\ 0 < FFIdxS /\ FFIdxS = FFIdxE /\ FFIdxE < Len(FFSites)
    /\ FFSameGapLeft = FFSameGapRight
    /\ ff.res = Return(<<FFIdxS, "e">>)

-----------------------------------------------------------------------------
(* Properties of bedpe_type, under SpecBedpeType.                           *)

BTCalled == bt.res.kind # "pending"
BTSameChrom == bt.items[1] = bt.items[4]
BTSpan == abs(bt.items[2] - bt.items[5])
BTMapped == BTSpan <= bt.threshold_span \/ bt.threshold_span = -1
Known(chr) == chr \in DOMAIN rest_sites

\* find_frag of one end (1 or 2) of the call's record against the sites of chr.
BTEnd(chr, n) ==
    find_frag(rest_sites[chr], bt.items[3 * n - 1], bt.items[3 * n], rest_site_len)
BTBothEndsMap(chrX, chrY) ==
    /\ Known(chrX) /\ Known(chrY)
    /\ BTEnd(chrX, 1).kind = "return"
    /\ BTEnd(chrY, 2).kind = "return"

\* C3: a same-chromosome record that is mapped (span <= threshold_span or
\* threshold_span = -1) gets a verdict exactly when its chromosome is known
\* and find_frag returns for both ends; the verdict is self-ligation exactly
\* when the two fragment indices are equal, else re-ligation exactly when
\* frag2.index - frag1.index = 1 with frag2 side s and frag1 side e, else
\* normal; and both fragment refs of find_frag are returned with it.
C3_IntraVerdict ==
    (BTCalled /\ BTSameChrom /\ BTMapped) =>
        LET r == bt.res
            adjacent == r.frag2[1] - r.frag1[1] = 1
                        /\ r.frag2[2] = "s" /\ r.frag1[2] = "e"
        IN  /\ r.kind = "return" <=> BTBothEndsMap(bt.items[1], bt.items[1])
            /\ r.kind = "return" =>
                /\ r.frag1 # None /\ r.frag2 # None
                /\ r.frag1 = BTEnd(bt.items[1], 1).frag
                /\ r.frag2 = BTEnd(bt.items[1], 2).frag
                /\ r.type = "self-ligation" <=> r.frag1[1] = r.frag2[1]
                /\ r.type = "re-ligation" <=> (r.frag1[1] # r.frag2[1] /\ adjacent)
                /\ r.type = "normal" <=> (r.frag1[1] # r.frag2[1] /\ ~adjacent)

C3_Witness ==
    /\ BTCalled /\ BTSameChrom /\ BTMapped
    /\ bt.res.type = "re-ligation"
    /\ bt.res.frag1[1] >= 1

\* C4: a record with ends on different chromosomes never gets another verdict
\* than normal. With threshold_span # -1 bedpe_type returns normal with no
\* fragment refs and without calling find_frag, whatever the record. With
\* threshold_span = -1 it maps each end against its own chromosome's sites
\* and, when both chromosomes are known and both calls return, returns
\* normal with both refs.
C4_InterNormal ==
    (BTCalled /\ ~BTSameChrom) =>
        LET r == bt.res IN
        /\ r.type \notin {"self-ligation", "re-ligation"}
        /\ bt.threshold_span # -1 => r = ReturnType("normal", None, None, 0)
        /\ bt.threshold_span = -1 =>
            /\ r.kind = "return" <=> BTBothEndsMap(bt.items[1], bt.items[4])
            /\ r.kind = "return" =>
                /\ r.type = "normal" /\ r.calls = 2
                /\ r.frag1 # None /\ r.frag2 # None
                /\ r.frag1 = BTEnd(bt.items[1], 1).frag
                /\ r.frag2 = BTEnd(bt.items[4], 2).frag

C4_Witness ==
    /\ BTCalled /\ ~BTSameChrom /\ bt.threshold_span = -1
    /\ bt.res.kind = "return"
    /\ bt.res.frag1 # None /\ bt.res.frag2 # None
    /\ bt.res.frag2 # BTEnd(bt.items[1], 2).frag

\* C5 as stated: a record with span > threshold_span is never mapped:
\* no find_frag call, verdict normal, no fragment refs.
C5_SpanAboveThreshold ==
    (BTCalled /\ BTSpan > bt.threshold_span)
    => bt.res = ReturnType("normal", None, None, 0)

\* C5 amended: the same, for threshold_span # -1 (with the sentinel -1 every
\* span exceeds the threshold and every record is mapped).
C5_SpanAboveThresholdNotForced ==
    (BTCalled /\ BTSpan > bt.threshold_span /\ bt.threshold_span # -1)
    => bt.res = ReturnType("normal", None, None, 0)

C5_Witness ==
    /\ BTCalled /\ BTSameChrom /\ Known(bt.items[1])
    /\ bt.threshold_span >= 0 /\ BTSpan > bt.threshold_span
    /\ BTBothEndsMap(bt.items[1], bt.items[1])
    /\ bt.res.calls = 0
\* The record with its two ends exchanged, and what bedpe_type gives for it.
Exchanged(items) ==
    <<items[4], items[5], items[6], items[1], items[2], items[3]>>
BTExchanged ==
    bedpe_type(rest_sites, Exchanged(bt.items), bt.threshold_span, rest_site_len)

\* C13 as stated: for a same-chromosome mapped record (A, B) that gets a
\* verdict, (B, A) gets the same type, with the two fragment refs exchanged.
C13_SymmetricUnderExchange ==
    (BTCalled /\ BTSameChrom /\ BTMapped /\ bt.res.kind = "return") =>
        /\ BTExchanged.kind = "return"
        /\ BTExchanged.type = bt.res.type
        /\ BTExchanged.frag1 = bt.res.frag2
        /\ BTExchanged.frag2 = bt.res.frag1

\* C13 amended: for a same-chromosome mapped record, (B, A) gets a verdict
\* exactly when (A, B) does, with the two fragment refs exchanged, and
\* self-ligation for the one exactly when for the other; re-ligation is
\* directional: when (A, B) is re-ligation, (B, A) is normal, and otherwise
\* the two types differ only where (B, A) is re-ligation and (A, B) normal.
C13_SymmetricButReLigation ==
    (BTCalled /\ BTSameChrom /\ BTMapped) =>
        /\ BTExchanged.kind = bt.res.kind
        /\ bt.res.kind = "return" =>
              /\ BTExchanged.frag1 = bt.res.frag2
              /\ BTExchanged.frag2 = bt.res.frag1
              /\ (BTExchanged.type = "self-ligation")
                    <=> (bt.res.type = "self-ligation")
              /\ bt.res.type = "re-ligation" => BTExchanged.type = "normal"
              /\ BTExchanged.type = "re-ligation" => bt.res.type = "normal"

C13_Witness ==
    /\ BTCalled /\ BTSameChrom /\ BTMapped
    /\ bt.res.kind = "return" /\ bt.res.type = "re-ligation"
    /\ BTExchanged.kind = "return" /\ BTExchanged.type = "normal"
    /\ BTExchanged.frag1 = bt.res.frag2

-----------------------------------------------------------------------------
(* Properties of the pipeline, under Spec.                                  *)

Running == 1..processes
Classify(items) == bedpe_type(rest_sites, items, threshold_span, rest_site_len)
ZeroCounts == [k \in TypeSet |-> 0]

\* The counts of classifying the records one by one: each record bedpe_type
\* gives a verdict for is counted under that verdict.
RECURSIVE Tally(_)
Tally(records) ==
    IF records = <<>> THEN ZeroCounts
    ELSE LET r == Classify(Head(records))
             t == Tally(Tail(records))
         IN  IF r.kind = "return" THEN [t EXCEPT ![r.type] = @ + 1] ELSE t

\* The counts one worker alone reports on the same records: its tally, merged
\* at its end, or nothing when a record ends it before.
SingleWorkerCounts(records) ==
    IF \E i \in 1..Len(records) : record_outcome(Classify(records[i])) = "crash"
    THEN ZeroCounts
    ELSE Tally(records)

\* C1: after a full run of _main the shared counts equal the counts of a
\* single-threaded reference run over the same records (read either as the
\* tally of bedpe_type's verdicts or as the run of one worker), whatever the
\* worker count and the interleaving.
C1_CountsEqualReference ==
    main_pc = "done" => counts \in {Tally(bedpe), SingleWorkerCounts(bedpe)}

\* C2: once _main's join loop has completed, every one of the P workers has
\* taken one termination signal, closed its files, merged its counts and
\* exited, and no termination signal is left in the queue.
C2_EveryWorkerEndsBySignal ==
    main_pc \in {"merge", "report", "done"} =>
        /\ \A w \in Running : w_pc[w] = "done"
        /\ task_queue = <<>>

\* A step of worker w's loop body `for items in chunk`.
Processes(w) ==
    /\ w_pc[w] = "proc"
    /\ w_pc'[w] # "proc" \/ w_chunk'[w] # w_chunk[w]

\* The step is the `continue` of the except clause: nothing written, nothing
\* counted, on to the next record.
Skips(w) ==
    /\ sinks'[w] = sinks[w]
    /\ l_counts'[w] = l_counts[w]
    /\ w_chunk'[w] = Tail(w_chunk[w])
    /\ w_pc'[w] = IF Tail(w_chunk[w]) = <<>> THEN "get" ELSE "proc"

AbsentChrom(items) == ~Known(items[1]) \/ ~Known(items[4])

\* bedpe_type gets to look the absent chromosome up: the record is mapped,
\* and chr1 is absent, or chr2 is and find_frag returned for the first end.
Mapped(items) ==
    \/ threshold_span = -1
    \/ items[1] = items[4] /\ abs(items[2] - items[5]) <= threshold_span
LooksUpAbsent(items) ==
    /\ Mapped(items)
    /\ \/ ~Known(items[1])
       \/ /\ ~Known(items[4])
          /\ find_frag(rest_sites[items[1]], items[2], items[3],
                       rest_site_len).kind = "return"

\* C9 as stated: a record with a chromosome absent from the index is skipped
\* by the worker, for every threshold_span, same-chromosome or not.
C9_AbsentChromosomeSkipped ==
    [][\A w \in Workers :
        (Processes(w) /\ AbsentChrom(Head(w_chunk[w]))) => Skips(w)]_vars

\* C9 amended: a record is skipped when bedpe_type looks up a chromosome
\* absent from the index; a record with an absent chromosome that is not
\* mapped (threshold_span # -1, and the ends on different chromosomes or
\* further apart than threshold_span) is written to the normal sink without
\* annotation and counted as normal.
C9_LookedUpAbsentChromosomeSkipped ==
    [][\A w \in Workers :
        Processes(w) =>
            LET items == Head(w_chunk[w]) IN
            /\ LooksUpAbsent(items) => Skips(w) /\ skipped'[w] = skipped[w] + 1
            /\ (AbsentChrom(items) /\ ~Mapped(items)) =>
                  /\ sinks'[w] = [sinks[w] EXCEPT ![1] = Append(@, <<items, None>>)]
                  /\ l_counts'[w] = [l_counts[w] EXCEPT ![1] = @ + 1]]_vars

C9_Witness ==
    \E w \in Running :
        /\ w_pc[w] = "done"
        /\ skipped[w] = 1
        /\ l_counts[w] = <<1, 0, 0>>
        /\ Len(sinks[w][1]) = 1
        /\ AbsentChrom(sinks[w][1][1][1])

\* C10: when a worker has crashed, _main does not get to merge the
\* per-worker files or to write the report.
C10_CrashIsFatal ==
    (\E w \in Running : w_pc[w] = "crashed") => main_pc \notin {"report", "done"}

-----------------------------------------------------------------------------
(* The task channel, under Spec.                                            *)

\* The capacity C11 is stated for; a file of QueueCapacity + 1 chunks shows
\* the same for any other.
QueueCapacity == 1

\* The chunks waiting in the queue, termination signals not counted.
ChunksWaiting ==
    Cardinality({i \in 1..Len(task_queue) : ~task_queue[i].none})

\* C11: the task channel is bounded: at most QueueCapacity chunks wait in it
\* at any moment, the distributor's put blocking while it is full.
\* (task_queue is mp.Queue() without maxsize, line 339: put never blocks and
\* ReadChunk is enabled whatever the queue's length.)
C11_ChannelBounded == ChunksWaiting <= QueueCapacity

\* A step of _main's read loop: a put, or the StopIteration that ends it.
Distributes ==
    /\ main_pc = "read"
    /\ main_pc' # "read" \/ Len(task_queue') > Len(task_queue)

\* C14: every chunk put on the task queue holds the next 1..chunk_size
\* records of the file, chunk_size of them unless the file ends before;
\* read_chunk never returns an empty chunk: with nothing left to read (the
\* empty file and the file of a multiple of chunk_size records included) the
\* read loop ends without a put, and all that is put afterwards is the
\* termination signals.
C14_ChunksNeverEmpty ==
    [][/\ Distributes =>
            IF fpos = Len(bedpe)
            THEN task_queue' = task_queue /\ main_pc' = "pills"
            ELSE \E n \in 1..ChunkSize :
                    /\ n = ChunkSize \/ fpos + n = Len(bedpe)
                    /\ fpos' = fpos + n
                    /\ task_queue' = Append(task_queue,
                           ChunkItem(SubSeq(bedpe, fpos + 1, fpos + n)))
       /\ (main_pc # "read" /\ Len(task_queue') > Len(task_queue)) =>
            main_pc = "pills" /\ task_queue' = Append(task_queue, NoneItem)
      ]_vars

\* A file of exactly chunk_size records, read to its end: one full chunk was
\* put, the loop has ended, no worker has taken anything yet.
C14_Witness ==
    /\ Len(bedpe) = ChunkSize
    /\ main_pc = "pills" /\ nput = 0
    /\ task_queue = <<ChunkItem(bedpe)>>

-----------------------------------------------------------------------------
(* The merge of the counters, under Spec.                                   *)

\* Worker w is between lock.acquire() and lock.release(), lines 204-208.
InCriticalSection(w) == w_pc[w] \in {"merge", "release"}

\* Worker w has written its k-th local count into the shared counts.
HasMerged(w, k) ==
    \/ w_pc[w] \in {"release", "done"}
    \/ w_pc[w] = "merge" /\ w_merge[w][1] > k

\* The k-th local counts of the workers 1..w that have merged them, summed.
RECURSIVE MergedSum(_, _)
MergedSum(w, k) ==
    IF w = 0 THEN 0
    ELSE (IF HasMerged(w, k) THEN l_counts[w][k] ELSE 0) + MergedSum(w - 1, k)

\* C16: the counters are merged under mutual exclusion and once per worker:
\* never two workers between acquire and release, the worker there being the
\* holder of the lock; a worker's read-modify-write of a counter is pending
\* only inside that section; and each shared counter is at every moment the
\* sum of the local counters merged so far, no increment lost or added twice.
C16_MergeUnderLock ==
    /\ \A w1, w2 \in Workers :
          (InCriticalSection(w1) /\ InCriticalSection(w2)) => w1 = w2
    /\ \A w \in Workers :
          /\ InCriticalSection(w) <=> lock = w
          /\ w_merge[w][2] # -1 => w_pc[w] = "merge"
    /\ \A k \in 1..3 : counts[Types[k]] = MergedSum(MaxWorkers, k)

\* One worker in the middle of a read-modify-write while another, with
\* counts of its own to merge, waits for the lock.
C16_Witness ==
    \E w1, w2 \in Workers :
        /\ w_pc[w1] = "merge" /\ w_merge[w1][2] # -1
        /\ w_pc[w2] = "acquire"
        /\ l_counts[w1] # <<0, 0, 0>> /\ l_counts[w2] # <<0, 0, 0>>

-----------------------------------------------------------------------------
(* The sinks and the local counters of a worker, under Spec.                *)

\* The line the claim expects for a record: the items, and the two
\* fragment refs exactly when bedpe_type mapped the two ends.
ExpectedLine(items) ==
    LET r == Classify(items) IN
    <<items, IF r.calls = 2 THEN <<r.frag1, r.frag2>> ELSE None>>

\* The step wrote one line to sink t of worker w and counted it, and left
\* the other sinks and counters of w as they were.
WritesTo(w, t, line) ==
    /\ sinks'[w] = [sinks[w] EXCEPT ![t] = Append(@, line)]
    /\ l_counts'[w] = [l_counts[w] EXCEPT ![t] = @ + 1]

\* C17: in every worker each classified record is written to exactly one
\* sink, the one of its type, and the local counter of that type goes up by
\* one, so that at every point of a worker's run local counter c is the
\* number of lines written so far to sink c; the line carries the two-field
\* fragment annotation exactly when the find_frag mapping was performed.
C17_OneSinkOneCount ==
    /\ [](\A w \in Workers :
            /\ w_pc[w] # "crashed" =>
                  \A t \in 1..3 : l_counts[w][t] = Len(sinks[w][t])
            /\ \A t \in 1..3 : \A i \in 1..Len(sinks[w][t]) :
                  /\ Classify(sinks[w][t][i][1]).type = Types[t]
                  /\ sinks[w][t][i] = ExpectedLine(sinks[w][t][i][1]))
    /\ [][\A w \in Workers :
            (Processes(w) /\ Classify(Head(w_chunk[w])).kind = "return") =>
                \E t \in 1..3 :
                    /\ Types[t] = Classify(Head(w_chunk[w])).type
                    /\ WritesTo(w, t, ExpectedLine(Head(w_chunk[w])))]_vars

\* A worker that has written to each of its three sinks, lines with and
\* without annotation among them.
C17_Witness ==
    \E w \in Running :
        /\ w_pc[w] = "done"
        /\ l_counts[w] = <<1, 1, 1>>
        /\ \A t \in 1..3 : Len(sinks[w][t]) = 1
        /\ sinks[w][1][1][2] = None
        /\ sinks[w][2][1][2] # None

-----------------------------------------------------------------------------
(* The end of _main, under Spec.                                            *)

\* Worker w has closed its three files, merged its counts and ended.
ClosedAndMerged(w) == w_pc[w] = "done"

\* C18: the files are merged and the report is written only after every
\* worker has ended: when merge_tmp_files and log_counts run, every worker
\* has closed its files and completed its merge into the shared counts, and
\* the counts are not changed after log_counts has read them.
C18_ReportAfterWorkers ==
    /\ main_pc \in {"merge", "report", "done"} =>
          \A w \in Running : ClosedAndMerged(w)
    /\ main_pc = "done" => report = log_counts(counts)

\* The records the workers 1..w skipped on a KeyError.
RECURSIVE SkippedBy(_)
SkippedBy(w) == IF w = 0 THEN 0 ELSE skipped[w] + SkippedBy(w - 1)

\* No chunk waits behind a termination signal.
ChunksBeforeSignals ==
    \A i, j \in 1..Len(task_queue) :
        (i < j /\ task_queue[i].none) => task_queue[j].none

\* C20: the chunks are put before the termination signals and the queue is
\* first-in first-out, so no worker takes a signal while a chunk waits;
\* every chunk put is taken by a worker, and every record of the file is
\* classified once: at the end of the run no chunk is left and the three
\* reported counts plus the skipped records add up to the records of the file.
C20_EveryRecordClassifiedOnce ==
    /\ ChunksBeforeSignals
    /\ main_pc = "done" =>
          /\ ChunksWaiting = 0
          /\ report[4] + SkippedBy(MaxWorkers) = Len(bedpe)

-----------------------------------------------------------------------------
(* remove_redundancy (remove_redundancy.py). A line of the bedpe file is the *)
(* tuple of its six fields. Bedpe and its methods are dlo_hic.utils          *)
(* .parse_text: a record of the six fields, written back field by field;    *)
(* is_rep_with after the module's docstring: same chromosomes, and both     *)
(* ends less than the threshold apart.                                      *)

MaxLines == 3        \* remove_redundancy: the input file holds 1..MaxLines lines

Bedpe(line) ==
    [chr1 |-> line[1], start1 |-> line[2], end1 |-> line[3],
     chr2 |-> line[4], start2 |-> line[5], end2 |-> line[6]]
str(b) == <<b.chr1, b.start1, b.end1, b.chr2, b.start2, b.end2>>

is_rep_with(self, another, dis) ==
    /\ self.chr1 = another.chr1
    /\ self.chr2 = another.chr2
    /\ abs(self.start1 - another.start1) < dis
    /\ abs(self.start2 - another.start2) < dis

\* The lines an input file is made of, in upper triangle form.
RRLines ==
    { <<"chrA", 0, 4, "chrA", 10, 14>>,
      <<"chrA", 1, 5, "chrA", 11, 15>>,
      <<"chrA", 2, 6, "chrA", 12, 16>>,
      <<"chrA", 2, 6, "chrA", 20, 24>>,
      <<"chrA", 2, 6, "chrB", 12, 16>>,
      <<"chrB", 0, 4, "chrB", 1, 5>> }
RRDistances == {0, 2, 3}

\* Sorted according to reads1, the first three columns (sort_bedpe_reads1).
Reads1LessEq(a, b) ==
    \/ a[1] = "chrA" /\ b[1] = "chrB"
    \/ a[1] = b[1] /\ a[2] < b[2]
    \/ a[1] = b[1] /\ a[2] = b[2] /\ a[3] <= b[3]
SortedByReads1(file) ==
    \A i \in 1..(Len(file) - 1) : Reads1LessEq(file[i], file[i + 1])
RRFiles ==
    {f \in UNION {[1..n -> RRLines] : n \in 1..MaxLines} : SortedByReads1(f)}

InitRemoveRedundancy ==
    /\ rr \in {[file |-> f, distance |-> d, pos |-> 0, base |-> None,
                out |-> <<>>, pc |-> "open"] : f \in RRFiles, d \in RRDistances}
    /\ ff = NoFindFragCall
    /\ bt = NoBedpeTypeCall
    /\ ia = NoInferAdapter
    /\ PipelineIdle

\* line 70: base = Bedpe(f.readline())
ReadBase ==
    /\ rr.pc = "open"
    /\ rr' = [rr EXCEPT !.base = Bedpe(rr.file[1]), !.pos = 1, !.pc = "loop"]
    /\ UNCHANGED <<ff, bt, ia, pipeVars>>

\* for-else without its write.
at_end_of_file_no_write(out, base) == out

\* lines 81-83: the for loop ran out of lines; the base is written.
at_end_of_file(out, base) == Append(out, str(base))

\* lines 71-84: one line taken by `for line in f`, or the end of the file.
\* After the break of line 80 `while True` re-enters the for loop, which
\* goes on with the next line of the same file object.
NextLine ==
    /\ rr.pc = "loop"
    /\ IF rr.pos = Len(rr.file)
       THEN rr' = [rr EXCEPT !.out = at_end_of_file(rr.out, rr.base),
                             !.pc = "done"]
       ELSE LET another == Bedpe(rr.file[rr.pos + 1]) IN
            IF is_rep_with(rr.base, another, rr.distance)
            THEN rr' = [rr EXCEPT !.pos = @ + 1]
            ELSE rr' = [rr EXCEPT !.pos = @ + 1,
                                  !.out = Append(@, str(rr.base)),
                                  !.base = another]
    /\ UNCHANGED <<ff, bt, ia, pipeVars>>

SpecRemoveRedundancy ==
    InitRemoveRedundancy /\ [][ReadBase \/ NextLine]_vars

-----------------------------------------------------------------------------
(* Properties of remove_redundancy, under SpecRemoveRedundancy.             *)

\* The indices of the lines i.. of the file that are kept when line b is the
\* base: a line is dropped when it is a replicate of the base, and is kept
\* and becomes the base otherwise.
RECURSIVE KeptAfter(_, _, _, _)
KeptAfter(file, i, b, d) ==
    IF i > Len(file) THEN <<>>
    ELSE IF is_rep_with(Bedpe(file[b]), Bedpe(file[i]), d)
         THEN KeptAfter(file, i + 1, b, d)
         ELSE <<i>> \o KeptAfter(file, i + 1, i, d)

\* The lines of a non-empty file that are kept, the first always.
KeptLines(file, d) ==
    LET kept == <<1>> \o KeptAfter(file, 2, 1, d)
    IN  [k \in 1..Len(kept) |-> file[kept[k]]]

\* C21: over a sorted, non-empty file remove_redundancy writes the lines
\* kept, in file order and each once: the first line, and each later line
\* that is not a replicate (is_rep_with within distance) of the base retained
\* when it is read, which then becomes the base. While the file is read the
\* output is the kept lines of the part read except the base at hand; the
\* base at hand at the end of the file is written last.
C21_KeepsNonReplicates ==
    /\ rr.pc = "loop" =>
          Append(rr.out, str(rr.base))
              = KeptLines(SubSeq(rr.file, 1, rr.pos), rr.distance)
    /\ rr.pc = "done" => rr.out = KeptLines(rr.file, rr.distance)

\* Three lines, the second a replicate of the first and dropped, the third
\* a replicate of the second but not of the first, and kept.
C21_Witness ==
    /\ rr.pc = "done" /\ Len(rr.file) = 3
    /\ is_rep_with(Bedpe(rr.file[1]), Bedpe(rr.file[2]), rr.distance)
    /\ is_rep_with(Bedpe(rr.file[2]), Bedpe(rr.file[3]), rr.distance)
    /\ rr.out = <<rr.file[1], rr.file[3]>>

-----------------------------------------------------------------------------
(* infer_adapter_seq (infer_adapter.py). The reads, mafft's alignment and    *)
(* the suffix tree are outside the model: what find_lcs returns for a batch *)
(* is any (lcs, min_) its code can return, an lcs being told by whether it  *)
(* holds a gap '-' and by its length.                                       *)

MaxBatches == 2      \* infer_adapter_seq: n_batch is 1..MaxBatches
MaxLcsPos == 3       \* find_lcs: the positions r.seq.find(lcs) are 0..MaxLcsPos
MaxLcsLen == 2       \* find_lcs: an lcs is 1..MaxLcsLen long
MaxRetries == 2      \* infer_adapter_seq: recursion depth followed

N_FQ_REC == 200
BATCH_SIZE == 5

\* float('inf'), line 66: greater than every position.
Inf == MaxLcsPos + 1

\* line 67: the (lcs, min_) find_lcs can return; min_ is the least position
\* at which a record holds the lcs, or inf when none does.
FindLcsResults ==
    {[lcs |-> [gap |-> g, len |-> n], min_ |-> p]
        : g \in BOOLEAN, n \in 1..MaxLcsLen, p \in (0..MaxLcsPos) \cup {Inf}}

\* The arguments of a call by the caller.
InferAdapterCalls ==
    {[fastq_path |-> "reads.fq", n_fq_rec |-> N_FQ_REC, start_pos |-> s,
      n_batch |-> b, batch_size |-> BATCH_SIZE, start_pos_thresh |-> t]
        : s \in 1..MaxLcsPos, b \in 1..MaxBatches, t \in 1..(MaxLcsPos - 1)}

InitInferAdapter ==
    /\ ia \in {[original |-> a, args |-> a, start_pos |-> a.start_pos,
                batch |-> 0, candidates |-> <<>>, depth |-> 0, pc |-> "enter",
                res |-> None] : a \in InferAdapterCalls}
    /\ ff = NoFindFragCall
    /\ bt = NoBedpeTypeCall
    /\ rr = NoRemoveRedundancy
    /\ PipelineIdle

\* lines 72-75 of one invocation: the reads are cut at start_pos - 1 and
\* aligned. seq[start_pos-1:] with start_pos = inf is a TypeError.
Enter ==
    /\ ia.pc = "enter"
    /\ IF ia.args.start_pos = Inf
       THEN ia' = [ia EXCEPT !.pc = "raised", !.res = "TypeError"]
       ELSE ia' = [ia EXCEPT !.pc = "loop", !.batch = 0, !.candidates = <<>>,
                             !.start_pos = ia.args.start_pos]
    /\ UNCHANGED <<ff, bt, rr, pipeVars>>

\* lines 76-79: one batch; `lcs, start_pos = find_lcs(recs)` assigns to the
\* parameter start_pos.
Batch ==
    /\ ia.pc = "loop"
    /\ \E r \in FindLcsResults :
          ia' = [ia EXCEPT
                    !.start_pos = r.min_,
                    !.candidates = IF ~r.lcs.gap
                                   THEN Append(@, <<r.lcs, r.min_>>) ELSE @,
                    !.batch = @ + 1,
                    !.pc = IF ia.batch + 1 = ia.args.n_batch
                           THEN "decide" ELSE "loop"]
    /\ UNCHANGED <<ff, bt, rr, pipeVars>>

\* line 80 and line 83: candidates.sort(key=(pos, -len(lcs))); candidates[0].
SortKeyLess(c, d) == c[2] < d[2] \/ (c[2] = d[2] /\ c[1].len > d[1].len)
First(candidates) ==
    candidates[CHOOSE i \in 1..Len(candidates) :
                   \A j \in 1..Len(candidates) :
                       /\ ~SortKeyLess(candidates[j], candidates[i])
                       /\ j < i => SortKeyLess(candidates[i], candidates[j])]

\* lines 82 and 85: the recursive call, with start_pos as it is by then.
retry_args(args, start_pos) == [args EXCEPT !.start_pos = start_pos]

\* lines 80-87: return the first candidate or call again.
Decide ==
    /\ ia.pc = "decide"
    /\ LET retry == /\ ia.depth < MaxRetries
                    /\ ia' = [ia EXCEPT
                                 !.args = retry_args(ia.args, ia.start_pos),
                                 !.depth = @ + 1, !.pc = "enter"]
       IN  IF ia.candidates = <<>> THEN retry
           ELSE LET seq == First(ia.candidates)[1]
                    pos == First(ia.candidates)[2]
                IN  IF pos > ia.args.start_pos_thresh \/ pos = 0 THEN retry
                    ELSE ia' = [ia EXCEPT !.pc = "returned",
                                          !.res = <<seq, pos>>]
    /\ UNCHANGED <<ff, bt, rr, pipeVars>>

SpecInferAdapter == InitInferAdapter /\ [][Enter \/ Batch \/ Decide]_vars

-----------------------------------------------------------------------------
(* Properties of infer_adapter_seq, under SpecInferAdapter.                 *)

\* C22: every retry of infer_adapter_seq calls it with the arguments of the
\* original call, the caller's start_pos among them, and a value is returned
\* only for a candidate with 1 <= pos <= start_pos_thresh.
C22_RetryKeepsArguments ==
    ia.pc # "idle" =>
        /\ ia.args = ia.original
        /\ ia.pc = "returned" =>
              (1 <= ia.res[2] /\ ia.res[2] <= ia.args.start_pos_thresh)

====
